---- MODULE Spec2Model ----
(***************************************************************************)
(* Model of the guarded write subsystem of TCL_BRAIN:                      *)
(*   sov_write_plan.py        validate_plan (pure plan validator)          *)
(*   apply_write_plan.py      hardened Apply Driver                        *)
(*   apply_write_plan__DEPRECATED.py   legacy Apply Driver                 *)
(*   sov_locked_writer        LockedSOVWriter (write_cell / save_as)       *)
(*                                                                         *)
(* Strings that the code parses (cell addresses) are sequences of          *)
(* one-character strings, so that the regular expressions and int() are    *)
(* computed and not assumed.  A JSON object is a function from its keys;   *)
(* a missing object (None) and the empty object are both the function of   *)
(* empty domain, which is what every `not x` test of the code sees.        *)
(***************************************************************************)
EXTENDS Integers, Sequences, FiniteSets, TLC

(***************************************************************************)
(* Bounds of the model.                                                    *)
(***************************************************************************)
MaxWrites == 2
MaxWritesV == 2

(***************************************************************************)
(* Characters.                                                             *)
(***************************************************************************)
UpperLetters ==
  {"A","B","C","D","E","F","G","H","I","J","K","L","M",
   "N","O","P","Q","R","S","T","U","V","W","X","Y","Z"}

\* the lower-case letters that occur in the inputs
LowerLetters == {"i", "t"}

DigitChars == {"0","1","2","3","4","5","6","7","8","9"}

DigitVal(c) ==
  CASE c = "0" -> 0 [] c = "1" -> 1 [] c = "2" -> 2 [] c = "3" -> 3
    [] c = "4" -> 4 [] c = "5" -> 5 [] c = "6" -> 6 [] c = "7" -> 7
    [] c = "8" -> 8 [] c = "9" -> 9

\* int(s) for a non-empty string of decimal digits
RECURSIVE ParseInt(_)
ParseInt(s) ==
  IF s = <<>> THEN 0
  ELSE 10 * ParseInt(SubSeq(s, 1, Len(s) - 1)) + DigitVal(s[Len(s)])

\* number of leading characters of s that are in the class cls
RECURSIVE LeadCount(_, _)
LeadCount(s, cls) ==
  IF s = <<>> \/ Head(s) \notin cls THEN 0
  ELSE 1 + LeadCount(Tail(s), cls)

AllIn(s, cls) == \A k \in 1..Len(s) : s[k] \in cls

\* str.strip(): drop leading and trailing blanks
RECURSIVE LStrip(_)
LStrip(s) == IF s # <<>> /\ Head(s) = " " THEN LStrip(Tail(s)) ELSE s

RECURSIVE RStrip(_)
RStrip(s) ==
  IF s # <<>> /\ s[Len(s)] = " " THEN RStrip(SubSeq(s, 1, Len(s) - 1)) ELSE s

Strip(s) == RStrip(LStrip(s))

\* dict.get(k) with the falsy default: a missing key reads as ""
Get(d, k) == IF k \in DOMAIN d THEN d[k] ELSE ""

(***************************************************************************)
(* openpyxl.utils.cell.coordinate_from_string, as validate_plan calls it:  *)
(* ^[$]?([A-Za-z]{1,3})[$]?(\d+)$ , then int(row), row 0 refused.          *)
(* The result is [ok, col, row]; ok = FALSE is the exception.              *)
(***************************************************************************)
BadCoord == [ok |-> FALSE, col |-> <<>>, row |-> 0]

coordinate_from_string(cell) ==
  LET s1 == IF cell # <<>> /\ Head(cell) = "$" THEN Tail(cell) ELSE cell
      nl == LeadCount(s1, UpperLetters \cup LowerLetters)
      r1 == SubSeq(s1, nl + 1, Len(s1))
      r2 == IF r1 # <<>> /\ Head(r1) = "$" THEN Tail(r1) ELSE r1
  IN  IF nl < 1 \/ nl > 3 \/ r2 = <<>> \/ ~AllIn(r2, DigitChars)
      THEN BadCoord
      ELSE IF ParseInt(r2) = 0 THEN BadCoord
      ELSE [ok |-> TRUE, col |-> SubSeq(s1, 1, nl), row |-> ParseInt(r2)]

(***************************************************************************)
(* Violations.  A message of validate_plan is kept as the record of what   *)
(* its text contains: the rule, the index i of "writes[i]", and the sheet, *)
(* cell, column, row or key that the f-string interpolates.  A field that  *)
(* the text does not contain is NA, the empty sequence or -1.              *)
(***************************************************************************)
NA == "-"

Violation(kind, idx, sheet, cell, col, row, key) ==
  [kind |-> kind, idx |-> idx, sheet |-> sheet, cell |-> cell,
   col |-> col, row |-> row, key |-> key]

SourceKeys == <<"source_type", "source_path", "locator">>
MetaKeys == <<"project", "option", "trade", "bucket_code", "line_id">>

\* the loop `for k in keys: if not d.get(k): errors.append(...)`
MissingKeys(d, keys, kind, i) ==
  LET miss == SelectSeq(keys, LAMBDA k : Get(d, k) = "")
  IN  [n \in 1..Len(miss) |-> Violation(kind, i, NA, <<>>, <<>>, -1, miss[n])]

SourceErrors(w, i) ==
  IF DOMAIN w.source = {}
  THEN << Violation("SOURCE_MISSING", i, NA, <<>>, <<>>, -1, NA) >>
  ELSE MissingKeys(w.source, SourceKeys, "SOURCE_FIELD", i)

MetaErrors(w, i) ==
  IF DOMAIN w.meta = {}
  THEN << Violation("META_MISSING", i, NA, <<>>, <<>>, -1, NA) >>
  ELSE MissingKeys(w.meta, MetaKeys, "META_FIELD", i)

SheetErrors(w, i, lock) ==
  IF w.sheet # lock.sheet
  THEN << Violation("SHEET", i, w.sheet, <<>>, <<>>, -1, NA) >>
  ELSE <<>>

\* the row rule without the exception for the header block
RowErrors_noheader(c, i, lock) ==
  IF c.row < lock.first \/ c.row > lock.last
  THEN << Violation("ROW", i, NA, <<>>, <<>>, c.row, NA) >>
  ELSE <<>>

RowErrors(c, i, lock) ==
  IF (c.row < lock.first \/ c.row > lock.last) /\ c.row > 12
  THEN << Violation("ROW", i, NA, <<>>, <<>>, c.row, NA) >>
  ELSE <<>>

\* the column rules as an if / elif chain
ColumnErrors_elif(c, i, lock) ==
  IF c.col \notin lock.allowed
  THEN << Violation("NOT_ALLOWED", i, NA, <<>>, c.col, -1, NA) >>
  ELSE IF c.col \in lock.denied
  THEN << Violation("LOCKED", i, NA, <<>>, c.col, -1, NA) >>
  ELSE <<>>

ColumnErrors(c, i, lock) ==
  (IF c.col \in lock.denied
   THEN << Violation("LOCKED", i, NA, <<>>, c.col, -1, NA) >> ELSE <<>>)
  \o
  (IF c.col \notin lock.allowed
   THEN << Violation("NOT_ALLOWED", i, NA, <<>>, c.col, -1, NA) >> ELSE <<>>)

\* the body of the loop of validate_plan for writes[i] (i is the Python index)
WriteErrors(w, i, lock) ==
  LET c == coordinate_from_string(w.cell)
  IN  IF w.cell = <<>>
      THEN SheetErrors(w, i, lock)
           \o << Violation("CELL_MISSING", i, NA, <<>>, <<>>, -1, NA) >>
      ELSE IF ~c.ok
      THEN SheetErrors(w, i, lock)
           \o << Violation("CELL_INVALID", i, NA, w.cell, <<>>, -1, NA) >>
      ELSE SheetErrors(w, i, lock) \o RowErrors(c, i, lock)
           \o ColumnErrors(c, i, lock)
           \o SourceErrors(w, i) \o MetaErrors(w, i)

RECURSIVE AllWriteErrors(_, _, _)
AllWriteErrors(writes, n, lock) ==
  IF n = 0 THEN <<>>
  ELSE AllWriteErrors(writes, n - 1, lock) \o WriteErrors(writes[n], n - 1, lock)

validate_plan(plan, lock) ==
  LET shaErr == IF plan.template_sha256 # lock.sha256
                THEN << Violation("TEMPLATE_SHA", -1, NA, <<>>, <<>>, -1, NA) >>
                ELSE <<>>
  IN  IF plan.writes = <<>>
      THEN shaErr \o << Violation("NO_WRITES", -1, NA, <<>>, <<>>, -1, NA) >>
      ELSE shaErr \o AllWriteErrors(plan.writes, Len(plan.writes), lock)


(***************************************************************************)
(* Hashing.  sha256_json(writes) hashes the canonical JSON of the list of  *)
(* writes (sort_keys, compact separators); it is modelled as a             *)
(* collision-free digest: equal exactly when the lists are equal as JSON   *)
(* values.  A plan without the plan_hash key has NoHash.                   *)
(***************************************************************************)
\* the strings of the model that hold a character outside ASCII (written
\* here with the code point spelled out)
NonAsciiStrings == {"B<U+00E9>ton"}

\* json.dumps of a string: with ensure_ascii the characters outside ASCII
\* are written as \uXXXX escapes, without it as themselves (UTF-8 bytes)
json_string(s, ensure_ascii) ==
  IF s \in NonAsciiStrings
  THEN IF ensure_ascii THEN << "escaped", s >> ELSE << "utf8", s >>
  ELSE << "ascii", s >>

json_object(d, ensure_ascii) == [k \in DOMAIN d |-> json_string(d[k], ensure_ascii)]

\* json.dumps(writes, sort_keys=True, separators=(",", ":")) as the bytes it
\* yields: one entry per write, strings encoded by json_string
json_dumps(writes, ensure_ascii) ==
  [i \in 1..Len(writes) |->
     LET w == writes[i]
     IN  IF "sheet" \notin DOMAIN w THEN w
         ELSE [w EXCEPT !.sheet = json_string(w.sheet, ensure_ascii),
                        !.cell = [n \in 1..Len(w.cell) |->
                                    json_string(w.cell[n], ensure_ascii)],
                        !.source = json_object(w.source, ensure_ascii),
                        !.meta = json_object(w.meta, ensure_ascii)]]

\* a sha256_json that leaves characters outside ASCII unescaped
sha256_json_raw(writes) == [present |-> TRUE, of |-> json_dumps(writes, FALSE)]

sha256_json(writes) == [present |-> TRUE, of |-> json_dumps(writes, TRUE)]

NoHash == [present |-> FALSE, of |-> <<>>]

(***************************************************************************)
(* Values.  A JSON scalar or a cell content is [kind, n]: a number, a      *)
(* string starting with "=" (a formula), or None / an empty cell.          *)
(***************************************************************************)
Num(n) == [kind |-> "num", n |-> n]

Formula == [kind |-> "formula", n |-> 0]

None == [kind |-> "none", n |-> 0]

(***************************************************************************)
(* Locks, in the documented Lock file format.                              *)
(***************************************************************************)
GovSheet == "ESTIMATE (INPUT)"

ColI == <<"I">>
ColJ == <<"J">>
ColT == <<"T">>

LockA ==
  [sha256 |-> "sha_tpl", sheet |-> GovSheet, first |-> 13, last |-> 220,
   allowed |-> {ColI}, denied |-> {ColT}]

LockB ==
  [sha256 |-> "sha_tpl", sheet |-> GovSheet, first |-> 40, last |-> 60,
   allowed |-> {ColI, ColJ}, denied |-> {ColT, <<"A","B">>}]

(***************************************************************************)
(* Inputs: sources, metas, cell addresses and writes.                      *)
(***************************************************************************)
SourceKeySet == {"source_type", "source_path", "locator"}
MetaKeySet == {"project", "option", "trade", "bucket_code", "line_id"}

NoObj == [k \in {} |-> ""]

SourceWithout(K) == [k \in SourceKeySet |-> IF k \in K THEN "" ELSE "x"]
MetaWithout(K) == [k \in MetaKeySet |-> IF k \in K THEN "" ELSE "x"]

FullSource == SourceWithout({})
FullMeta == MetaWithout({})

PlannedWrite(sheet, cell, value, source, meta) ==
  [sheet |-> sheet, cell |-> cell, value |-> value, write |-> None,
   source |-> source, meta |-> meta]

GoodWrite(cell) == PlannedWrite(GovSheet, cell, Num(100), FullSource, FullMeta)

CellsV ==
  { <<"I","5","0">>, <<"I","5">>, <<"I","3","0">>, <<"I","3","0","0">>, <<"I","0">>,
    <<"I","0","5","0">>, <<"J","5","0">>, <<"T","5","0">>, <<"T","5">>,
    <<"A","B","5","0">>, <<"$","I","$","5","0">>, <<"i","5","0">>,
    <<"I","5","O">>, <<>> }

SourcesV ==
  {NoObj, FullSource, SourceWithout(SourceKeySet)}
    \cup {SourceWithout({k}) : k \in SourceKeySet}

MetasV ==
  {NoObj, FullMeta, MetaWithout(MetaKeySet)}
    \cup {MetaWithout({k}) : k \in MetaKeySet}

\* the writes the validator is exercised on
WritesV ==
  {PlannedWrite(GovSheet, c, Num(100), FullSource, FullMeta) : c \in CellsV}
  \cup
  {PlannedWrite("SUMMARY", c, Num(100), FullSource, FullMeta) :
      c \in {<<"I","5","0">>, <<"T","5","0">>, <<>>}}
  \cup
  {PlannedWrite(GovSheet, c, Num(100), s, FullMeta) :
      c \in {<<"I","5","0">>, <<>>}, s \in SourcesV}
  \cup
  {PlannedWrite(GovSheet, <<"I","5","0">>, Num(100), FullSource, m) :
      m \in MetasV}
  \cup
  {PlannedWrite(GovSheet, <<"I","0">>, Num(100), FullSource, m) :
      m \in {NoObj, MetaWithout({"line_id"})}}
  \cup
  {PlannedWrite("SUMMARY", <<"T","3","0","0">>, Num(100), NoObj, NoObj)}

SeqsUpTo(S, n) == UNION {[1..k -> S] : k \in 0..n}

(***************************************************************************)
(* The document.  A coordinate is <<column letters, row>>; a document is   *)
(* the contents of its cells and the set of coordinates inside a merged    *)
(* region.  A cell not in the grid is empty.                               *)
(***************************************************************************)
I50 == <<ColI, 50>>
I60 == <<ColI, 60>>
J50 == <<ColJ, 50>>
T50 == <<ColT, 50>>

TplCells(v60) == (I50 :> Num(1)) @@ (I60 :> v60) @@ (J50 :> None) @@ (T50 :> Formula)

\* the templates: I60 plain, I60 inside a merged region, I60 holding a formula
Templates ==
  { [cells |-> TplCells(None), merged |-> {}],
    [cells |-> TplCells(None), merged |-> {I60}],
    [cells |-> TplCells(Formula), merged |-> {}] }

NotLoaded == [open |-> FALSE, cells |-> <<>>, merged |-> {}]

CellAt(cells, at) == IF at \in DOMAIN cells THEN cells[at] ELSE None

NoFile == [exists |-> FALSE, cells |-> <<>>]

OldOut == [exists |-> TRUE, cells |-> (I50 :> Num(9))]

AuditRecord(cell, old, new, source, meta) ==
  [cell |-> cell, old_value |-> old, new_value |-> new,
   source |-> source, meta |-> meta]

OldRecord == AuditRecord(<<"I","5","0">>, Num(1), Num(9), FullSource, FullMeta)

\* the writes the drivers are exercised on
WritesD ==
  { GoodWrite(<<"I","5","0">>), GoodWrite(<<"I","6","0">>),
    GoodWrite(<<"T","5","0">>), GoodWrite(<<"J","5","0">>),
    GoodWrite(<<"I","0","5","0">>),
    PlannedWrite(GovSheet, <<"I","5","0">>, Num(100), FullSource, NoObj),
    PlannedWrite(GovSheet, <<"I","6","0">>, Formula, FullSource, FullMeta) }

ValuesD == {Num(100), Num(200)}

\* the lists that differ from ws in the value of exactly one write
Tampered(ws) ==
  {[ws EXCEPT ![k].value = v] :
     k \in 1..Len(ws), v \in ValuesD} \ {ws}

NoRecord == AuditRecord(<<>>, None, None, NoObj, NoObj)

NoFrame == [rec |-> NoRecord, mutated |-> 0]

\* no batch run
NoBatch == [lock |-> <<>>, fs |-> <<>>, fs0 |-> <<>>, lock_sha |-> "",
            cands |-> <<>>, total |-> 0, ready |-> <<>>, skipped |-> <<>>,
            out_txt |-> <<>>, runs |-> 0]

\* no discovery run
NoDisc == [rows |-> <<>>, merged |-> {}, c1 |-> 1, c2 |-> 1, code_rows |-> <<>>,
           col_stats |-> <<>>, safe_cols |-> <<>>, locked_cols |-> <<>>]

VARIABLES
  entry,        \* the script that runs
  env,          \* value of TCL_HARDENED_APPLY
  plan,         \* the plan file: [template_sha256, plan_hash, writes]
  lock,         \* the lock file
  tpl,          \* the template file
  orig_writes,  \* history: the writes plan_hash was computed over
  prior,        \* history: the audit log and output file before the run
  errs,         \* result of validate_plan
  printed,      \* the violations the run has printed
  fatal_msg,    \* the message of fatal(), if it was called
  doc,          \* the writer's in-memory document
  audit,        \* the audit log file, one record per line
  out,          \* the output file
  next_i,       \* index (from 1) of the next write of the apply loop
  calls,        \* history: write_cell calls made, successful ones, save_as calls
  pc,           \* position of the run in main()
  exit_code,    \* exit status of the process; -1 while it runs
  wc,           \* a write_cell call in progress: the record it is to log,
                \* and (history) the number of cell values set so far
  batch,        \* batch_select_plans: the plans directory and the run's state
  disc          \* sov_write_safe_map: the sheet scanned and the run's state

inputs == <<entry, env, plan, lock, tpl, orig_writes, prior>>

vars == <<entry, env, plan, lock, tpl, orig_writes, prior, errs, printed, fatal_msg,
          doc, audit, out, next_i, calls, pc, exit_code, wc, batch, disc>>

Running == -1

Hardened == "apply_write_plan"
Deprecated == "apply_write_plan__DEPRECATED"

NoCalls == [write_cell |-> 0, written |-> 0, save_as |-> 0]

(***************************************************************************)
(* fatal(msg): print and raise SystemExit(2).  The message is kept as the  *)
(* record of what its text contains.                                       *)
(***************************************************************************)
Fatal(kind, idx, sheet, cell, count) ==
  [kind |-> kind, idx |-> idx, sheet |-> sheet, cell |-> cell, count |-> count]

NoFatal == Fatal("", -1, NA, <<>>, 0)

\* a fatal() that prints and exits with status 0
Halt_exit0(m, code) ==
  /\ fatal_msg' = m
  /\ pc' = "halted"
  /\ exit_code' = 0

\* the run halts with the message m and the exit status code
Halt(m, code) ==
  /\ fatal_msg' = m
  /\ pc' = "halted"
  /\ exit_code' = code

(***************************************************************************)
(* LockedSOVWriter.                                                        *)
(* write_cell refuses a denied column, a cell inside a merged region and a *)
(* cell holding a formula; otherwise it sets the value and appends one     *)
(* audit record.  The result is [ok, cells, audit]; ok = FALSE is the      *)
(* exception it raises.                                                    *)
(***************************************************************************)
write_cell(d, a, lk, cell_addr, new_value, source, meta) ==
  LET c == coordinate_from_string(cell_addr)
      at == <<c.col, c.row>>
      old == CellAt(d.cells, at)
  IN  IF ~c.ok \/ c.col \in lk.denied \/ at \in d.merged \/ old.kind = "formula"
      THEN [ok |-> FALSE, cells |-> d.cells, audit |-> a]
      ELSE [ok |-> TRUE,
            cells |-> (at :> new_value) @@ d.cells,
            audit |-> Append(a, AuditRecord(cell_addr, old, new_value, source, meta))]

save_as(d) == [exists |-> TRUE, cells |-> d.cells]

(***************************************************************************)
(* apply_write_plan.py: helpers.                                           *)
(***************************************************************************)
\* RX_CELL = ^[A-Z]{1,3}[0-9]{1,5}$
RX_CELL(s) ==
  LET nl == LeadCount(s, UpperLetters)
      r == SubSeq(s, nl + 1, Len(s))
  IN  /\ nl \in 1..3
      /\ Len(r) \in 1..5
      /\ AllIn(r, DigitChars)

_get_write_value(w) ==
  IF w.value.kind # "none" THEN w.value
  ELSE IF w.write.kind # "none" THEN w.write
  ELSE None

Either(a, b, dflt) == IF a # "" THEN a ELSE IF b # "" THEN b ELSE dflt

_normalize_source(srcd) ==
  [source_type |-> Either(Get(srcd, "source_type"), Get(srcd, "type"), "unknown"),
   source_path |-> Either(Get(srcd, "source_path"), Get(srcd, "path"), "unknown"),
   locator |-> Either(Get(srcd, "locator"), "", "unknown"),
   notes |-> Get(srcd, "notes")]

\* Counter((sheet, cell))[key of writes[i]]
CellCount(writes, i) ==
  Cardinality({j \in 1..Len(writes) :
                 writes[j].sheet = writes[i].sheet /\ writes[j].cell = writes[i].cell})

\* a duplicate check that lets a key pass that occurs twice
DuplicateFatal_thrice(writes) ==
  LET dups == {i \in 1..Len(writes) : CellCount(writes, i) > 2}
  IN  IF dups = {} THEN NoFatal
      ELSE LET i == CHOOSE k \in dups : \A j \in dups : k <= j
           IN  Fatal("DUPLICATE_CELL", -1, writes[i].sheet, writes[i].cell,
                     CellCount(writes, i))

\* the duplicate check: the first key of the counter, in insertion order,
\* that occurs more than once
DuplicateFatal(writes) ==
  LET dups == {i \in 1..Len(writes) : CellCount(writes, i) > 1}
  IN  IF dups = {} THEN NoFatal
      ELSE LET i == CHOOSE k \in dups : \A j \in dups : k <= j
           IN  Fatal("DUPLICATE_CELL", -1, writes[i].sheet, writes[i].cell,
                     CellCount(writes, i))

\* the checks of the preflight loop on writes[i]
WriteFatal(w, i) ==
  LET cell == Strip(w.cell)
  IN  IF ~RX_CELL(cell) THEN Fatal("INVALID_CELL", i, NA, cell, 0)
      ELSE IF Head(cell) = "T" THEN Fatal("FORMULA_COLUMN_TARGET", i, NA, cell, 0)
      ELSE IF DOMAIN w.meta = {} THEN Fatal("MISSING_META", i, NA, <<>>, 0)
      ELSE IF DOMAIN w.source = {} THEN Fatal("MISSING_SOURCE", i, NA, <<>>, 0)
      ELSE NoFatal

LoopFatal(writes) ==
  LET bad == {i \in 1..Len(writes) : WriteFatal(writes[i], i - 1) # NoFatal}
  IN  IF bad = {} THEN NoFatal
      ELSE LET i == CHOOSE k \in bad : \A j \in bad : k <= j
           IN  WriteFatal(writes[i], i - 1)

PreflightFatal(writes) ==
  IF DuplicateFatal(writes) # NoFatal THEN DuplicateFatal(writes)
  ELSE LoopFatal(writes)

PrintLimit == 200

Take(s, n) == SubSeq(s, 1, IF Len(s) < n THEN Len(s) ELSE n)

(***************************************************************************)
(* The state before a run of one of the two Apply Drivers.                 *)
(***************************************************************************)
Init ==
  /\ entry \in {Hardened, Deprecated}
  /\ env \in {"1", "unset"}
  /\ lock = LockA
  /\ tpl \in Templates
  /\ orig_writes \in SeqsUpTo(WritesD, MaxWrites)
  /\ \E sha \in {"sha_tpl", "sha_other"},
        h \in {NoHash, sha256_json(orig_writes)},
        ws \in {orig_writes} \cup Tampered(orig_writes) :
       plan = [template_sha256 |-> sha, plan_hash |-> h, writes |-> ws]
  /\ prior \in {[audit |-> <<>>, out |-> NoFile],
               [audit |-> << OldRecord >>, out |-> OldOut]}
  /\ audit = prior.audit
  /\ out = prior.out
  /\ errs = <<>>
  /\ printed = <<>>
  /\ fatal_msg = NoFatal
  /\ doc = NotLoaded
  /\ next_i = 1
  /\ calls = NoCalls
  /\ pc = IF entry = Hardened THEN "env_gate" ELSE "load"
  /\ exit_code = Running
  /\ wc = NoFrame
  /\ batch = NoBatch
  /\ disc = NoDisc

(***************************************************************************)
(* apply_write_plan.main and apply_write_plan__DEPRECATED.main.            *)
(***************************************************************************)
EnvGate ==
  /\ entry = Hardened
  /\ pc = "env_gate"
  /\ IF env # "1"
     THEN Halt(Fatal("ENV_GATE", -1, NA, <<>>, 0), 2)
     ELSE pc' = "load" /\ UNCHANGED <<fatal_msg, exit_code>>
  /\ UNCHANGED <<inputs, batch, disc, wc, errs, printed, doc, audit, out, next_i, calls>>

\* a load after which the hardened driver goes straight to validation
Load_skip ==
  /\ entry \in {Hardened, Deprecated}
  /\ pc = "load"
  /\ \E found \in BOOLEAN :
       IF ~found
       THEN Halt(Fatal("NOT_FOUND", -1, NA, <<>>, 0),
                 IF entry = Hardened THEN 2 ELSE 1)
       ELSE /\ pc' = "validate"
            /\ UNCHANGED <<fatal_msg, exit_code>>
  /\ UNCHANGED <<inputs, batch, disc, wc, errs, printed, doc, audit, out, next_i, calls>>

\* the three files exist and are read, or one is missing
Load ==
  /\ entry \in {Hardened, Deprecated}
  /\ pc = "load"
  /\ \E found \in BOOLEAN :
       IF ~found
       THEN Halt(Fatal("NOT_FOUND", -1, NA, <<>>, 0),
                 IF entry = Hardened THEN 2 ELSE 1)
       ELSE /\ pc' = IF entry = Hardened THEN "sha_binding" ELSE "validate"
            /\ UNCHANGED <<fatal_msg, exit_code>>
  /\ UNCHANGED <<inputs, batch, disc, wc, errs, printed, doc, audit, out, next_i, calls>>

ShaBinding ==
  /\ entry = Hardened
  /\ pc = "sha_binding"
  /\ IF plan.template_sha256 # lock.sha256
     THEN Halt(Fatal("TEMPLATE_SHA", -1, NA, <<>>, 0), 2)
     ELSE pc' = "plan_hash" /\ UNCHANGED <<fatal_msg, exit_code>>
  /\ UNCHANGED <<inputs, batch, disc, wc, errs, printed, doc, audit, out, next_i, calls>>

PlanHashCheck ==
  /\ entry = Hardened
  /\ pc = "plan_hash"
  /\ IF plan.writes = <<>>
     THEN Halt(Fatal("NO_WRITES", -1, NA, <<>>, 0), 2)
     ELSE IF ~plan.plan_hash.present
     THEN Halt(Fatal("PLAN_HASH_MISSING", -1, NA, <<>>, 0), 2)
     ELSE IF plan.plan_hash # sha256_json(plan.writes)
     THEN Halt(Fatal("PLAN_TAMPER", -1, NA, <<>>, 0), 2)
     ELSE pc' = "preflight" /\ UNCHANGED <<fatal_msg, exit_code>>
  /\ UNCHANGED <<inputs, batch, disc, wc, errs, printed, doc, audit, out, next_i, calls>>

Preflight ==
  /\ entry = Hardened
  /\ pc = "preflight"
  /\ IF PreflightFatal(plan.writes) # NoFatal
     THEN Halt(PreflightFatal(plan.writes), 2)
     ELSE pc' = "validate" /\ UNCHANGED <<fatal_msg, exit_code>>
  /\ UNCHANGED <<inputs, batch, disc, wc, errs, printed, doc, audit, out, next_i, calls>>

\* a validation whose result is printed and not acted upon
Validate_skip ==
  /\ entry \in {Hardened, Deprecated}
  /\ pc = "validate"
  /\ errs' = validate_plan(plan, lock)
  /\ printed' = Take(errs', PrintLimit)
  /\ pc' = "open_writer"
  /\ UNCHANGED <<inputs, batch, disc, wc, fatal_msg, doc, audit, out, next_i, calls, exit_code>>

Validate ==
  /\ entry \in {Hardened, Deprecated}
  /\ pc = "validate"
  /\ errs' = validate_plan(plan, lock)
  /\ IF errs' # <<>>
     THEN /\ printed' = Take(errs', PrintLimit)
          /\ pc' = "halted"
          /\ exit_code' = 2
     ELSE /\ pc' = "open_writer"
          /\ UNCHANGED <<printed, exit_code>>
  /\ UNCHANGED <<inputs, batch, disc, wc, fatal_msg, doc, audit, out, next_i, calls>>

\* a writer opened on the audit file as the earlier run left it
OpenWriter_keep ==
  /\ entry \in {Hardened, Deprecated}
  /\ pc = "open_writer"
  /\ audit' = audit
  /\ doc' = [open |-> TRUE, cells |-> tpl.cells, merged |-> tpl.merged]
  /\ next_i' = 1
  /\ pc' = IF plan.writes = <<>> THEN "save" ELSE "apply"
  /\ UNCHANGED <<inputs, batch, disc, wc, errs, printed, fatal_msg, out, calls, exit_code>>

\* the prior audit file is unlinked, then the writer loads the template
OpenWriter ==
  /\ entry \in {Hardened, Deprecated}
  /\ pc = "open_writer"
  /\ audit' = <<>>
  /\ doc' = [open |-> TRUE, cells |-> tpl.cells, merged |-> tpl.merged]
  /\ next_i' = 1
  /\ pc' = IF plan.writes = <<>> THEN "save" ELSE "apply"
  /\ UNCHANGED <<inputs, batch, disc, wc, errs, printed, fatal_msg, out, calls, exit_code>>

\* the source and the value the driver passes to write_cell for the write w
SourceArg(w) ==
  IF entry = Hardened THEN _normalize_source(w.source)
  ELSE [source_type |-> w.source["source_type"],
        source_path |-> w.source["source_path"],
        locator |-> w.source["locator"],
        notes |-> Get(w.source, "notes")]

Truthy(v) == v.kind = "formula" \/ (v.kind = "num" /\ v.n # 0)

ValueArg(w) ==
  IF entry = Hardened THEN _get_write_value(w)
  ELSE IF Truthy(w.value) THEN w.value ELSE w.write

\* an apply loop that catches the exception of write_cell and goes on
ApplyWrite_swallow ==
  /\ entry \in {Hardened, Deprecated}
  /\ pc = "apply"
  /\ next_i <= Len(plan.writes)
  /\ LET w == plan.writes[next_i]
         r == write_cell(doc, audit, lock, w.cell, ValueArg(w), SourceArg(w), w.meta)
     IN  /\ doc' = [doc EXCEPT !.cells = r.cells]
         /\ audit' = r.audit
         /\ calls' = [calls EXCEPT !.write_cell = @ + 1,
                                   !.written = IF r.ok THEN @ + 1 ELSE @]
         /\ wc' = [wc EXCEPT !.mutated = IF r.ok THEN @ + 1 ELSE @]
         /\ next_i' = next_i + 1
         /\ pc' = IF next_i = Len(plan.writes) THEN "save" ELSE "apply"
  /\ UNCHANGED <<inputs, batch, disc, errs, printed, fatal_msg, out, exit_code>>

\* an apply loop that walks plan.writes from its last write to its first
ApplyWrite_reversed ==
  /\ entry \in {Hardened, Deprecated}
  /\ pc = "apply"
  /\ next_i <= Len(plan.writes)
  /\ LET w == plan.writes[Len(plan.writes) + 1 - next_i]
         r == write_cell(doc, audit, lock, w.cell, ValueArg(w), SourceArg(w), w.meta)
     IN  /\ doc' = [doc EXCEPT !.cells = r.cells]
         /\ audit' = r.audit
         /\ IF r.ok
            THEN /\ calls' = [calls EXCEPT !.write_cell = @ + 1, !.written = @ + 1]
                 /\ wc' = [wc EXCEPT !.mutated = @ + 1]
                 /\ next_i' = next_i + 1
                 /\ pc' = IF next_i = Len(plan.writes) THEN "save" ELSE "apply"
                 /\ UNCHANGED exit_code
            ELSE /\ calls' = [calls EXCEPT !.write_cell = @ + 1]
                 /\ pc' = "halted"
                 /\ exit_code' = 1
                 /\ UNCHANGED <<next_i, wc>>
  /\ UNCHANGED <<inputs, batch, disc, errs, printed, fatal_msg, out>>

\* one iteration of the apply loop; an exception of write_cell is not caught
ApplyWrite ==
  /\ entry \in {Hardened, Deprecated}
  /\ pc = "apply"
  /\ next_i <= Len(plan.writes)
  /\ LET w == plan.writes[next_i]
         r == write_cell(doc, audit, lock, w.cell, ValueArg(w), SourceArg(w), w.meta)
     IN  /\ doc' = [doc EXCEPT !.cells = r.cells]
         /\ audit' = r.audit
         /\ IF r.ok
            THEN /\ calls' = [calls EXCEPT !.write_cell = @ + 1, !.written = @ + 1]
                 /\ wc' = [wc EXCEPT !.mutated = @ + 1]
                 /\ next_i' = next_i + 1
                 /\ pc' = IF next_i = Len(plan.writes) THEN "save" ELSE "apply"
                 /\ UNCHANGED exit_code
            ELSE /\ calls' = [calls EXCEPT !.write_cell = @ + 1]
                 /\ pc' = "halted"
                 /\ exit_code' = 1
                 /\ UNCHANGED <<next_i, wc>>
  /\ UNCHANGED <<inputs, batch, disc, errs, printed, fatal_msg, out>>

Save ==
  /\ entry \in {Hardened, Deprecated}
  /\ pc = "save"
  /\ out' = save_as(doc)
  /\ calls' = [calls EXCEPT !.save_as = @ + 1]
  /\ pc' = "done"
  /\ exit_code' = 0
  /\ UNCHANGED <<inputs, batch, disc, wc, errs, printed, fatal_msg, doc, audit, next_i>>

Next ==
  \/ EnvGate
  \/ Load
  \/ ShaBinding
  \/ PlanHashCheck
  \/ Preflight
  \/ Validate
  \/ OpenWriter
  \/ ApplyWrite
  \/ Save

Spec == Init /\ [][Next]_vars

(***************************************************************************)
(* A run that can be killed between any two steps, with write_cell taken   *)
(* as its two effects one after the other: the cell value is set, then the *)
(* audit record is appended.                                               *)
(***************************************************************************)
\* an order with the record appended before the value is set
write_cell_order_logfirst == << "append_audit", "set_value" >>

write_cell_order == << "set_value", "append_audit" >>

Last(s) == s[Len(s)]

\* one of the two effects of a write_cell call whose record is rec
Effect(name, cells, rec) ==
  IF name = "set_value"
  THEN /\ doc' = [doc EXCEPT !.cells = cells]
       /\ wc' = [rec |-> rec, mutated |-> wc.mutated + 1]
       /\ UNCHANGED audit
  ELSE /\ audit' = Append(audit, rec)
       /\ wc' = [wc EXCEPT !.rec = rec]
       /\ UNCHANGED doc

\* write_cell is called: it refuses, or makes the first of its effects
WriteBegin ==
  /\ entry \in {Hardened, Deprecated}
  /\ pc = "apply"
  /\ next_i <= Len(plan.writes)
  /\ LET w == plan.writes[next_i]
         r == write_cell(doc, audit, lock, w.cell, ValueArg(w), SourceArg(w), w.meta)
     IN  IF r.ok
         THEN /\ Effect(write_cell_order[1], r.cells, Last(r.audit))
              /\ pc' = "in_write_cell"
              /\ UNCHANGED <<calls, exit_code>>
         ELSE /\ calls' = [calls EXCEPT !.write_cell = @ + 1]
              /\ pc' = "halted"
              /\ exit_code' = 1
              /\ UNCHANGED <<doc, audit, wc>>
  /\ UNCHANGED <<inputs, batch, disc, errs, printed, fatal_msg, out, next_i>>

\* write_cell makes the second of its effects and returns
WriteEnd ==
  /\ entry \in {Hardened, Deprecated}
  /\ pc = "in_write_cell"
  /\ LET c == coordinate_from_string(wc.rec.cell)
     IN  Effect(write_cell_order[2],
                (<<c.col, c.row>> :> wc.rec.new_value) @@ doc.cells, wc.rec)
  /\ calls' = [calls EXCEPT !.write_cell = @ + 1, !.written = @ + 1]
  /\ next_i' = next_i + 1
  /\ pc' = IF next_i = Len(plan.writes) THEN "save" ELSE "apply"
  /\ UNCHANGED <<inputs, batch, disc, errs, printed, fatal_msg, out, exit_code>>

\* the process is killed
Crash ==
  /\ exit_code = Running
  /\ pc' = "crashed"
  /\ exit_code' = 137
  /\ UNCHANGED <<inputs, batch, disc, wc, errs, printed, fatal_msg, doc, audit, out, next_i, calls>>

NextC ==
  \/ EnvGate
  \/ Load
  \/ ShaBinding
  \/ PlanHashCheck
  \/ Preflight
  \/ Validate
  \/ OpenWriter
  \/ WriteBegin
  \/ WriteEnd
  \/ Save
  \/ Crash

SpecC == Init /\ [][NextC]_vars

(***************************************************************************)
(* sov_write_plan.main: the validate CLI (no Excel writes).                *)
(***************************************************************************)
InitV ==
  /\ entry = "sov_write_plan"
  /\ env = "unset"
  /\ lock \in {LockA, LockB}
  /\ tpl = [cells |-> TplCells(None), merged |-> {}]
  /\ \E sha \in {"sha_tpl", "sha_other"}, ws \in SeqsUpTo(WritesV, MaxWritesV) :
       /\ plan = [template_sha256 |-> sha, plan_hash |-> sha256_json(ws),
                  writes |-> ws]
       /\ orig_writes = ws
  /\ errs = <<>>
  /\ printed = <<>>
  /\ fatal_msg = NoFatal
  /\ doc = NotLoaded
  /\ prior = [audit |-> <<>>, out |-> NoFile]
  /\ audit = <<>>
  /\ out = NoFile
  /\ next_i = 1
  /\ calls = NoCalls
  /\ pc = "validate"
  /\ exit_code = Running
  /\ wc = NoFrame
  /\ batch = NoBatch
  /\ disc = NoDisc

CliValidate ==
  /\ entry = "sov_write_plan"
  /\ pc = "validate"
  /\ errs' = validate_plan(plan, lock)
  /\ pc' = "report"
  /\ UNCHANGED <<inputs, batch, disc, wc, printed, fatal_msg, doc, audit, out, next_i, calls, exit_code>>

CliNoGo ==
  /\ entry = "sov_write_plan"
  /\ pc = "report"
  /\ errs # <<>>
  /\ printed' = Take(errs, PrintLimit)
  /\ pc' = "halted"
  /\ exit_code' = 2
  /\ UNCHANGED <<inputs, batch, disc, wc, errs, fatal_msg, doc, audit, out, next_i, calls>>

CliGo ==
  /\ entry = "sov_write_plan"
  /\ pc = "report"
  /\ errs = <<>>
  /\ pc' = "done"
  /\ exit_code' = 0
  /\ UNCHANGED <<inputs, batch, disc, wc, errs, printed, fatal_msg, doc, audit, out, next_i, calls>>

NextV == CliValidate \/ CliNoGo \/ CliGo

SpecV == InitV /\ [][NextV]_vars



(***************************************************************************)
(* The rules of the validator as the specification words them, used to     *)
(* state the claims: the cell address grammar ^[A-Z]{1,3}[1-9][0-9]*$ and  *)
(* the per-write policy.                                                   *)
(***************************************************************************)
A1Letters(cell) == LeadCount(cell, UpperLetters)

A1Col(cell) == SubSeq(cell, 1, A1Letters(cell))

A1Digits(cell) == SubSeq(cell, A1Letters(cell) + 1, Len(cell))

A1Row(cell) == ParseInt(A1Digits(cell))

GrammarOK(cell) ==
  /\ A1Letters(cell) \in 1..3
  /\ A1Digits(cell) # <<>>
  /\ AllIn(A1Digits(cell), DigitChars)
  /\ A1Digits(cell)[1] # "0"

RowInPolicy(cell, lk) ==
  (A1Row(cell) >= lk.first /\ A1Row(cell) <= lk.last) \/ A1Row(cell) <= 12

PolicySatisfied(w, lk) ==
  /\ w.sheet = lk.sheet
  /\ GrammarOK(w.cell)
  /\ RowInPolicy(w.cell, lk)
  /\ A1Col(w.cell) \in lk.allowed
  /\ A1Col(w.cell) \notin lk.denied
  /\ \A k \in SourceKeySet : Get(w.source, k) # ""
  /\ \A k \in MetaKeySet : Get(w.meta, k) # ""

Validated == entry = "sov_write_plan" /\ pc # "validate"

Reported(i, kinds, key) ==
  \E n \in 1..Len(errs) :
    errs[n].idx = i /\ errs[n].kind \in kinds /\ errs[n].key = key

\* C8: a plan whose sha equals the lock's, whose writes are non-empty and
\* whose every write satisfies the per-write policy (governing sheet,
\* grammar-valid cell, row in the span or <= 12, column allowed and not
\* denied, complete source and meta) validates to the empty list (GO).
C8_ValidPlanIsGo ==
  ( /\ Validated
    /\ plan.template_sha256 = lock.sha256
    /\ plan.writes # <<>>
    /\ \A i \in 1..Len(plan.writes) : PolicySatisfied(plan.writes[i], lock) )
  => errs = <<>>

C8_Witness ==
  /\ Validated
  /\ pc = "done"
  /\ plan.template_sha256 = lock.sha256
  /\ Len(plan.writes) >= 2
  /\ \A i \in 1..Len(plan.writes) : PolicySatisfied(plan.writes[i], lock)
  /\ \E i \in 1..Len(plan.writes) : A1Row(plan.writes[i].cell) < lock.first
  /\ \E i \in 1..Len(plan.writes) : A1Row(plan.writes[i].cell) >= lock.first
  /\ errs = <<>>

TargetsDenied(w, lk) == GrammarOK(w.cell) /\ A1Col(w.cell) \in lk.denied

\* C9 as claimed: every write whose column is in lock.denied_columns has a
\* violation in the result that names the targeted cell by its A1 address.
C9_DeniedViolationNamesCell ==
  Validated =>
    \A i \in 1..Len(plan.writes) :
      TargetsDenied(plan.writes[i], lock) =>
        \E n \in 1..Len(errs) :
          errs[n].idx = i - 1 /\ errs[n].cell = plan.writes[i].cell

\* C9 amended: every write whose cell is a grammar-valid address with a
\* column in lock.denied_columns has a "column is LOCKED" violation in the
\* result, which names the write by its index writes[i] and the column
\* letters, and does not contain the A1 address.
C9_DeniedViolationNamesColumn ==
  Validated =>
    \A i \in 1..Len(plan.writes) :
      TargetsDenied(plan.writes[i], lock) =>
        \E n \in 1..Len(errs) :
          /\ errs[n].idx = i - 1
          /\ errs[n].kind = "LOCKED"
          /\ errs[n].col = A1Col(plan.writes[i].cell)
          /\ errs[n].cell = <<>>

C9_Witness ==
  /\ Validated
  /\ Len(plan.writes) >= 2
  /\ TargetsDenied(plan.writes[2], lock)
  /\ ~TargetsDenied(plan.writes[1], lock)
  /\ plan.writes[2].sheet # lock.sheet
  /\ \E n \in 1..Len(errs) : errs[n].idx = 1 /\ errs[n].kind = "LOCKED"

\* C10 as claimed: for every write the result holds a violation for every
\* rule the write breaks (sheet, cell syntax, row span, denied column,
\* allowed column, each missing source field, each missing meta field),
\* whatever other rules the same write or earlier writes break.
C10_EveryBrokenRuleReported ==
  Validated =>
    \A i \in 1..Len(plan.writes) :
      LET w == plan.writes[i]
      IN  /\ w.sheet # lock.sheet => Reported(i - 1, {"SHEET"}, NA)
          /\ ~GrammarOK(w.cell) =>
               Reported(i - 1, {"CELL_MISSING", "CELL_INVALID"}, NA)
          /\ (GrammarOK(w.cell) /\ ~RowInPolicy(w.cell, lock)) =>
               Reported(i - 1, {"ROW"}, NA)
          /\ (GrammarOK(w.cell) /\ A1Col(w.cell) \in lock.denied) =>
               Reported(i - 1, {"LOCKED"}, NA)
          /\ (GrammarOK(w.cell) /\ A1Col(w.cell) \notin lock.allowed) =>
               Reported(i - 1, {"NOT_ALLOWED"}, NA)
          /\ \A k \in SourceKeySet :
               Get(w.source, k) = "" =>
                 \/ Reported(i - 1, {"SOURCE_MISSING"}, NA)
                 \/ Reported(i - 1, {"SOURCE_FIELD"}, k)
          /\ \A k \in MetaKeySet :
               Get(w.meta, k) = "" =>
                 \/ Reported(i - 1, {"META_MISSING"}, NA)
                 \/ Reported(i - 1, {"META_FIELD"}, k)


(***************************************************************************)
(* Claims about the Apply Driver.                                          *)
(***************************************************************************)
Ended == pc \in {"halted", "done"}

\* the coordinate an A1 address denotes
Coord(cell) == <<A1Col(cell), A1Row(cell)>>

\* the gates of the hardened driver, each evaluated on the whole plan
EnvGateOK == env = "1"
ShaBindingOK == plan.template_sha256 = lock.sha256
PlanHashOK ==
  plan.writes # <<>> /\ plan.plan_hash.present
    /\ plan.plan_hash = sha256_json(plan.writes)
PreflightOK == PreflightFatal(plan.writes) = NoFatal
ValidateOK == validate_plan(plan, lock) = <<>>

NoCellWritten ==
  /\ calls.write_cell = 0
  /\ doc.open => doc.cells = tpl.cells

\* C1: in the hardened Apply Driver write_cell is called only when, for the
\* whole plan, the env gate, the template-sha binding, the plan_hash check,
\* the preflight and validate_plan(plan, lock) = [] have all passed; a plan
\* that validate_plan rejects results in zero cells written.
C1_NoWriteBeforeAllGates ==
  entry = Hardened =>
    /\ calls.write_cell > 0 =>
         EnvGateOK /\ ShaBindingOK /\ PlanHashOK /\ PreflightOK /\ ValidateOK
    /\ ~ValidateOK => NoCellWritten

C1_Witness ==
  /\ entry = Hardened
  /\ pc = "done"
  /\ calls.written = 2
  /\ doc.cells # tpl.cells

\* C2 as claimed: when plan_hash was computed over the writes and the value
\* of one write was changed afterwards, a run of the hardened driver that
\* gets to the plan_hash check (gate open, files found, sha bound) aborts
\* there before any cell is written, and after the run the audit log holds
\* no record, whatever it held before the run.
C2_TamperAbortsWithEmptyAudit ==
  ( /\ entry = Hardened
    /\ plan.plan_hash = sha256_json(orig_writes)
    /\ plan.writes \in Tampered(orig_writes)
    /\ EnvGateOK /\ ShaBindingOK /\ fatal_msg.kind # "NOT_FOUND"
    /\ Ended )
  => ( /\ pc = "halted"
       /\ fatal_msg.kind = "PLAN_TAMPER"
       /\ NoCellWritten
       /\ audit = <<>> )

\* the audit log holds exactly the records of the first n writes of the plan
AuditOfFirst(n) ==
  /\ Len(audit) = n
  /\ \A k \in 1..Len(audit) :
       /\ audit[k].cell = plan.writes[k].cell
       /\ audit[k].new_value = plan.writes[k].value
       /\ audit[k].meta = plan.writes[k].meta

WriteFailed == calls.write_cell > calls.written

\* C3: in an Apply run save_as is called at most once and only after
\* write_cell has succeeded for every write of the plan; when a write_cell
\* fails no output file is saved and the audit log holds exactly the
\* records of the writes that succeeded before the failure.
C3_AllOrNothingSave ==
  entry \in {Hardened, Deprecated} =>
    /\ calls.save_as <= 1
    /\ calls.save_as = 1 =>
         calls.written = Len(plan.writes) /\ ~WriteFailed
    /\ WriteFailed =>
         /\ calls.save_as = 0
         /\ out = prior.out
         /\ pc = "halted"
         /\ AuditOfFirst(calls.written)

C3_Witness ==
  /\ entry = Hardened
  /\ WriteFailed
  /\ calls.written = 1
  /\ Len(audit) = 1
  /\ pc = "halted"
  /\ prior.out.exists

\* the stage the hardened driver is at fails on the current state
FailingAt ==
  \/ pc = "env_gate" /\ ~EnvGateOK
  \/ pc = "sha_binding" /\ ~ShaBindingOK
  \/ pc = "plan_hash" /\ ~PlanHashOK
  \/ pc = "preflight" /\ ~PreflightOK
  \/ pc = "validate" /\ ~ValidateOK
  \/ /\ pc = "apply"
     /\ LET at == Coord(plan.writes[next_i].cell)
        IN  at \in doc.merged \/ CellAt(doc.cells, at).kind = "formula"

HaltedClean ==
  /\ pc = "halted"
  /\ exit_code \notin {0, Running}
  /\ out = prior.out
  /\ calls.save_as = 0

\* C4: a failing stage of the hardened driver (env gate, load, sha binding,
\* plan_hash check, preflight, validate, apply) halts the run at once with
\* a non-zero exit status; no stage runs after the halt; the output file is
\* as it was before the run.
C4_FailureHaltsAtOnce ==
  /\ [][(entry = Hardened /\ FailingAt) => HaltedClean']_vars
  /\ [][entry = Hardened => pc # "halted"]_vars
  /\ [](entry = Hardened /\ pc = "halted" => HaltedClean)

C4_Witness ==
  /\ entry = Hardened
  /\ pc = "halted"
  /\ fatal_msg.kind = "DUPLICATE_CELL"
  /\ exit_code = 2
  /\ prior.out.exists
  /\ out = prior.out

\* C5 as claimed: no entry point calls write_cell or save_as on the
\* document unless TCL_HARDENED_APPLY is "1".
C5_NoMutationWithoutEnv ==
  env # "1" => calls.write_cell = 0 /\ calls.save_as = 0

\* the write the apply loop is about to make targets a merged cell
MergedTarget ==
  /\ pc = "apply"
  /\ Coord(plan.writes[next_i].cell) \in doc.merged
  /\ Coord(plan.writes[next_i].cell)[1] \in lock.allowed

\* C6: a write that targets a cell X inside a merged region is refused even
\* though the column of X is allowed: X and every other cell keep their
\* values, no audit record is appended, the run halts, and no output file
\* is saved for the run.
C6_MergedCellRefused ==
  /\ [][MergedTarget =>
          /\ doc'.cells = doc.cells
          /\ audit' = audit
          /\ calls'.written = calls.written
          /\ pc' = "halted"
          /\ out' = prior.out]_vars
  /\ [](\A at \in tpl.merged :
          /\ doc.open => CellAt(doc.cells, at) = CellAt(tpl.cells, at)
          /\ \A k \in 1..Len(audit) : Coord(audit[k].cell) # at
          /\ out # prior.out => CellAt(out.cells, at) = CellAt(tpl.cells, at))
  /\ [](WriteFailed => out = prior.out /\ calls.save_as = 0)

C6_Witness ==
  /\ pc = "halted"
  /\ WriteFailed
  /\ calls.written = 1
  /\ Coord(plan.writes[next_i].cell) \in tpl.merged
  /\ Coord(plan.writes[next_i].cell)[1] \in lock.allowed
  /\ out = prior.out

\* the write the apply loop is about to make targets a cell holding a formula
FormulaTarget ==
  /\ pc = "apply"
  /\ CellAt(doc.cells, Coord(plan.writes[next_i].cell)).kind = "formula"

FormulaCells == {at \in DOMAIN tpl.cells : tpl.cells[at].kind = "formula"}

\* C7: a write whose target cell holds a formula is refused: the cell keeps
\* its formula, no audit record is appended and the run fails; in every
\* reachable state the cells that hold a formula in the template hold it in
\* the document and in a saved output.
C7_FormulaCellRefused ==
  /\ [][FormulaTarget =>
          /\ doc'.cells = doc.cells
          /\ audit' = audit
          /\ pc' = "halted"
          /\ exit_code' \notin {0, Running}]_vars
  /\ [](\A at \in FormulaCells :
          /\ doc.open => CellAt(doc.cells, at) = tpl.cells[at]
          /\ out # prior.out => CellAt(out.cells, at) = tpl.cells[at])

C7_Witness ==
  /\ pc = "halted"
  /\ WriteFailed
  /\ Coord(plan.writes[next_i].cell) \in FormulaCells
  /\ CellAt(doc.cells, Coord(plan.writes[next_i].cell)).kind = "formula"
  /\ exit_code = 1

(***************************************************************************)
(* The denied-column scenario: allowed = {I}, denied = {T}, one write at a *)
(* T-column cell of the row span added to an otherwise valid plan.         *)
(***************************************************************************)
\* the kinds of the violations of the result r that name writes[i], in order
KindsOf(r, i) ==
  LET sel == SelectSeq(r, LAMBDA e : e.idx = i)
  IN  [n \in 1..Len(sel) |-> sel[n].kind]

\* write k is the added T-column write and every other write is valid
ScenarioT(k) ==
  /\ lock.allowed = {ColI}
  /\ lock.denied = {ColT}
  /\ plan.template_sha256 = lock.sha256
  /\ k \in 1..Len(plan.writes)
  /\ LET w == plan.writes[k]
     IN  /\ w.sheet = lock.sheet
         /\ GrammarOK(w.cell)
         /\ A1Col(w.cell) = ColT
         /\ A1Row(w.cell) >= lock.first /\ A1Row(w.cell) <= lock.last
         /\ \A f \in SourceKeySet : Get(w.source, f) # ""
         /\ \A f \in MetaKeySet : Get(w.meta, f) # ""
  /\ \A j \in 1..Len(plan.writes) :
       j # k => PolicySatisfied(plan.writes[j], lock)

\* C11 as claimed: in the scenario validate_plan returns exactly one
\* violation, a denied-column violation for the added write, and no cell is
\* written.
C11_ExactlyOneDeniedViolation ==
  \A k \in 1..Len(plan.writes) :
    (ScenarioT(k) /\ errs # <<>>) =>
      /\ Len(errs) = 1
      /\ KindsOf(errs, k - 1) = << "LOCKED" >>
      /\ NoCellWritten

\* C11 amended: in the scenario validate_plan returns exactly two
\* violations, both for the added write: first the denied-column violation
\* (column is LOCKED), then a not-in-allowed-columns violation; a run that
\* validates the plan prints both and exits with status 2, and no run of an
\* Apply Driver on the plan writes a cell or saves an output.
C11_DeniedAndNotAllowed ==
  \A k \in 1..Len(plan.writes) :
    ScenarioT(k) =>
      /\ Len(validate_plan(plan, lock)) = 2
      /\ KindsOf(validate_plan(plan, lock), k - 1) = << "LOCKED", "NOT_ALLOWED" >>
      /\ errs # <<>> =>
           /\ errs = validate_plan(plan, lock)
           /\ printed = errs
           /\ pc = "halted"
           /\ exit_code = 2
      /\ pc \notin {"open_writer", "apply", "save", "done"}
      /\ NoCellWritten
      /\ calls.save_as = 0
      /\ out = prior.out

C11_Witness ==
  /\ Len(plan.writes) = 2
  /\ ScenarioT(2)
  /\ pc = "halted"
  /\ Len(errs) = 2
  /\ errs[1].kind = "LOCKED" /\ errs[1].idx = 1
  /\ errs[2].kind = "NOT_ALLOWED" /\ errs[2].idx = 1
  /\ exit_code = 2

(***************************************************************************)
(* Duplicate targets.                                                      *)
(***************************************************************************)
HasDuplicate ==
  \E i, j \in 1..Len(plan.writes) :
    /\ i < j
    /\ plan.writes[i].sheet = plan.writes[j].sheet
    /\ plan.writes[i].cell = plan.writes[j].cell

\* the number of writes of the plan with the sheet sh and the cell c
Occurrences(sh, c) ==
  Cardinality({j \in 1..Len(plan.writes) :
                 plan.writes[j].sheet = sh /\ plan.writes[j].cell = c})

\* C12: a plan with two or more writes of identical (sheet, cell) never gets
\* to validation in the hardened Apply Driver and no cell is written for it;
\* a run that gets past the env gate, the load, the sha binding and the
\* plan_hash check ends at the preflight with exit status 2 and a
\* duplicate-cell message holding the sheet, the cell and the number of
\* occurrences of a duplicated pair.
C12_DuplicateRejectedAtPreflight ==
  (entry = Hardened /\ HasDuplicate) =>
    /\ pc \notin {"validate", "open_writer", "apply", "save", "done"}
    /\ errs = <<>>
    /\ NoCellWritten
    /\ ( /\ Ended
         /\ EnvGateOK /\ ShaBindingOK /\ PlanHashOK
         /\ fatal_msg.kind # "NOT_FOUND" ) =>
           /\ fatal_msg.kind = "DUPLICATE_CELL"
           /\ exit_code = 2
           /\ fatal_msg.count >= 2
           /\ fatal_msg.count = Occurrences(fatal_msg.sheet, fatal_msg.cell)

C12_Witness ==
  /\ entry = Hardened
  /\ HasDuplicate
  /\ \A i \in 1..Len(plan.writes) : PolicySatisfied(plan.writes[i], lock)
  /\ pc = "halted"
  /\ fatal_msg.kind = "DUPLICATE_CELL"
  /\ fatal_msg.cell = <<"I", "5", "0">>
  /\ fatal_msg.count = 2

(***************************************************************************)
(* The audit log of a run.                                                 *)
(***************************************************************************)
\* the content of the target of writes[k] when writes[k] is applied: the
\* value of the latest earlier write to the same coordinate, else the
\* template's
OldBefore(k) ==
  LET at == Coord(plan.writes[k].cell)
      prev == {j \in 1..(k - 1) : Coord(plan.writes[j].cell) = at}
  IN  IF prev = {} THEN CellAt(tpl.cells, at)
      ELSE plan.writes[CHOOSE j \in prev : \A m \in prev : m <= j].value

\* the record r carries the cell, old value, new value, source and meta of
\* writes[k]
RecordOf(r, k) ==
  LET w == plan.writes[k]
  IN  /\ r.cell = w.cell
      /\ r.old_value = OldBefore(k)
      /\ r.new_value = w.value
      /\ \A f \in SourceKeySet : r.source[f] = w.source[f]
      /\ r.meta = w.meta

\* C13: once the writer of a run is open the audit log holds exactly one
\* record per write_cell call that returned and none for a refused call:
\* the number of audit lines equals the number of successful calls, a
\* successful call appends exactly one record, a refused call appends none,
\* and each record carries the cell, old value, new value, source and meta
\* of its write.
C13_OneRecordPerAppliedWrite ==
  /\ [](entry \in {Hardened, Deprecated} =>
          /\ ~doc.open => calls.write_cell = 0
          /\ doc.open =>
               /\ Len(audit) = calls.written
               /\ \A k \in 1..Len(audit) : RecordOf(audit[k], k))
  /\ [][calls'.write_cell = calls.write_cell + 1 =>
          IF calls'.written = calls.written + 1
          THEN Len(audit') = Len(audit) + 1 /\ SubSeq(audit', 1, Len(audit)) = audit
          ELSE audit' = audit /\ calls'.written = calls.written]_vars

C13_Witness ==
  /\ calls.write_cell = 2
  /\ calls.written = 1
  /\ prior.audit # <<>>
  /\ Len(audit) = 1
  /\ audit[1].old_value = Num(1)
  /\ audit[1].new_value = Num(200)

(***************************************************************************)
(* The order of the two effects of write_cell.                             *)
(***************************************************************************)
\* the records the run has appended to the audit log: before the writer is
\* opened the log is the earlier run's
OwnRecords == IF doc.open THEN Len(audit) ELSE Len(audit) - Len(prior.audit)

\* C14: in every state of a run that can be killed between any two steps,
\* the number of audit records the run has appended is at most the number
\* of cell values it has set, and is one less exactly while a write_cell
\* call has set its value and not yet logged it; no step appends a record
\* for a value that is not set.
C14_AuditNeverOverReports ==
  /\ [](OwnRecords <= wc.mutated)
  /\ [](pc # "crashed" =>
          wc.mutated - OwnRecords = (IF pc = "in_write_cell" THEN 1 ELSE 0))
  /\ [](wc.mutated - OwnRecords \in {0, 1})
  /\ [][Len(audit') > Len(audit) =>
          LET r == Last(audit')
              c == coordinate_from_string(r.cell)
          IN  CellAt(doc.cells, <<c.col, c.row>>) = r.new_value]_vars

C14_Witness ==
  /\ pc = "crashed"
  /\ wc.mutated = 2
  /\ Len(audit) = 1
  /\ doc.cells # tpl.cells

\* C15 as claimed: after any run of the hardened Apply Driver that got past
\* the env gate and found its files, successful or aborted at any later
\* gate, the audit log holds only the records the run has produced, one per
\* applied write, and none of an earlier run.
C15_AuditOnlyOfThisRun ==
  (entry = Hardened /\ Ended /\ EnvGateOK /\ fatal_msg.kind # "NOT_FOUND") =>
    /\ Len(audit) = calls.written
    /\ \A k \in 1..Len(audit) : RecordOf(audit[k], k)

(***************************************************************************)
(* The stages of the hardened driver.                                      *)
(***************************************************************************)
\* the number of the stage a position of main() belongs to; opening the
\* writer and the apply loop are the APPLY stage
Stage(p) ==
  CASE p = "env_gate" -> 1
    [] p = "load" -> 2
    [] p = "sha_binding" -> 3
    [] p = "plan_hash" -> 4
    [] p = "preflight" -> 5
    [] p = "validate" -> 6
    [] p \in {"open_writer", "apply"} -> 7
    [] p = "save" -> 8
    [] p = "done" -> 9
    [] OTHER -> 0

\* C17: a run of the hardened driver starts at the env gate; every step
\* either halts the run, or enters the next stage in the order env gate,
\* LOAD, sha binding, plan_hash check, PREFLIGHT, VALIDATE, APPLY, SAVE,
\* DONE, or stays in APPLY and moves on to the next write; nothing happens
\* after a halt or after DONE; so no stage is entered twice, no failed stage
\* is attempted again, and a run that is DONE has passed every stage.
C17_LinearStages ==
  /\ (entry = Hardened => pc = "env_gate")
  /\ [][entry = Hardened =>
          \/ pc' = "halted" /\ exit_code' # 0
          \/ Stage(pc') = Stage(pc) + 1
          \/ pc = "open_writer" /\ pc' = "apply" /\ next_i' = 1
          \/ pc = "apply" /\ pc' = "apply" /\ next_i' = next_i + 1]_vars
  /\ [][entry = Hardened => pc \notin {"halted", "done"}]_vars
  /\ [](entry = Hardened /\ pc = "done" =>
          /\ EnvGateOK /\ ShaBindingOK /\ PlanHashOK /\ PreflightOK /\ ValidateOK
          /\ calls.written = Len(plan.writes)
          /\ calls.save_as = 1)

C17_Witness ==
  /\ entry = Hardened
  /\ pc = "done"
  /\ exit_code = 0
  /\ Len(plan.writes) = 2
  /\ next_i = 3
  /\ prior.out.exists
  /\ out # prior.out

\* C18: the writes of an Apply run are applied one after another in the
\* order of plan.writes: a write_cell call is made only when every earlier
\* call of the run has succeeded, it is the call for the write after the
\* last applied one, and on success its record becomes the audit record
\* with that write's index; after a successful run the i-th audit record is
\* the record of plan.writes[i].
C18_WritesInPlanOrder ==
  /\ [][calls'.write_cell = calls.write_cell + 1 =>
          /\ calls.write_cell = calls.written
          /\ next_i = calls.written + 1
          /\ calls'.written = calls.written + 1 =>
               /\ Len(audit') = next_i
               /\ audit'[next_i].cell = plan.writes[next_i].cell
               /\ audit'[next_i].new_value = plan.writes[next_i].value
               /\ next_i' = next_i + 1]_vars
  /\ [](pc = "done" /\ entry \in {Hardened, Deprecated} =>
          /\ Len(audit) = Len(plan.writes)
          /\ \A i \in 1..Len(plan.writes) :
               /\ audit[i].cell = plan.writes[i].cell
               /\ audit[i].new_value = plan.writes[i].value
               /\ audit[i].old_value = OldBefore(i))

C18_Witness ==
  /\ pc = "done"
  /\ Len(plan.writes) = 2
  /\ plan.writes[1].cell = <<"I", "6", "0">>
  /\ plan.writes[2].cell = <<"I", "5", "0">>
  /\ Len(audit) = 2
  /\ audit[1].cell = <<"I", "6", "0">>
  /\ audit[2].cell = <<"I", "5", "0">>

\* C19 as claimed: when the hardened driver calls write_cell, the plan has
\* passed the preflight and the validator and every cell address of it
\* matches ^[A-Z]{1,3}[1-9][0-9]*$; write_cell is called with no other
\* address.
C19_OnlyGrammarAddressesPass ==
  (entry = Hardened /\ calls.write_cell > 0) =>
    /\ \A i \in 1..Len(plan.writes) : GrammarOK(plan.writes[i].cell)
    /\ \A k \in 1..Len(audit) : GrammarOK(audit[k].cell)

\* the run has passed the preflight and the validator
PastValidation ==
  pc \in {"open_writer", "apply", "save", "done"} \/ calls.write_cell > 0

\* C20 as claimed: no plan with a write whose value is a formula string
\* passes the preflight and the validator of the hardened driver, and no
\* cell of the document has been set to a formula string by write_cell.
C20_NoFormulaValuePasses ==
  (entry = Hardened /\ PastValidation) =>
    /\ \A i \in 1..Len(plan.writes) : plan.writes[i].value.kind # "formula"
    /\ \A k \in 1..Len(audit) : audit[k].new_value.kind # "formula"

(***************************************************************************)
(* batch_select_plans.py: Batch Plan Repair.                               *)
(* A path under the plans directory is <<directory, file name>>; the file  *)
(* system maps every path to the JSON in the file, or to Absent.           *)
(***************************************************************************)
MaxRuns == 2

ReadyDir == "_batch_ready"

Names == {"x.json", "y.json"}

\* the paths of the candidate plans before the first run
PathsB ==
  { <<"a", "x.json">>, <<"b", "x.json">>, <<"a", "y.json">>,
    <<"signatures", "x.json">> }

AllPaths == PathsB \cup {<<ReadyDir, n>> : n \in Names}

\* the order of sorted(): paths compare by their parts, as strings
DirRank(d) ==
  CASE d = "_batch_ready" -> 1
    [] d = "a" -> 2
    [] d = "b" -> 3
    [] d = "signatures" -> 4

NameRank(n) == IF n = "x.json" THEN 1 ELSE 2

PathLess(p, q) ==
  \/ DirRank(p[1]) < DirRank(q[1])
  \/ p[1] = q[1] /\ NameRank(p[2]) < NameRank(q[2])

RECURSIVE SortPaths(_)
SortPaths(S) ==
  IF S = {} THEN <<>>
  ELSE LET m == CHOOSE p \in S : \A q \in S : p = q \/ PathLess(p, q)
       IN  <<m>> \o SortPaths(S \ {m})

\* the content of a file: no file, text that is not JSON, JSON that is not
\* an object, or a plan object
PlanFile(json, sha, hash, writes) ==
  [json |-> json, template_sha256 |-> sha, template_sha |-> "",
   plan_hash |-> hash, writes |-> writes]

Absent == PlanFile("absent", "", NoHash, <<>>)
BadJson == PlanFile("bad", "", NoHash, <<>>)
NotDict == PlanFile("list", "", NoHash, <<>>)

\* a write that is not a JSON object
NonDictWrite == [scalar |-> 1]

UnicodeWrite ==
  PlannedWrite(GovSheet, <<"I","6","0">>, Num(100), FullSource,
               [FullMeta EXCEPT !["trade"] = "B<U+00E9>ton"])

\* plans that pass every check of the batch: without plan_hash, with the
\* plan_hash of the builder, with a plan_hash of other writes, and without
\* plan_hash for another template
SoundPlansB ==
  { PlanFile("dict", "sha_tpl", NoHash, << GoodWrite(<<"I","5","0">>) >>),
    PlanFile("dict", "sha_tpl", sha256_json(<< GoodWrite(<<"I","5","0">>) >>),
             << GoodWrite(<<"I","5","0">>) >>),
    PlanFile("dict", "sha_tpl", sha256_json(<< GoodWrite(<<"I","6","0">>) >>),
             << GoodWrite(<<"I","5","0">>) >>),
    PlanFile("dict", "sha_tpl", NoHash, << UnicodeWrite >>),
    PlanFile("dict", "sha_other", NoHash, << GoodWrite(<<"I","6","0">>) >>) }

\* plans that one check of the batch rejects
UnsoundPlansB ==
  { BadJson, NotDict,
    PlanFile("dict", "sha_tpl", NoHash, <<>>),
    PlanFile("dict", "", NoHash, << GoodWrite(<<"I","5","0">>) >>) }
  \cup
  { PlanFile("dict", "sha_tpl", NoHash, ws) :
      ws \in { << NonDictWrite >>,
               << PlannedWrite(GovSheet, <<>>, Num(100), FullSource, FullMeta) >>,
               << GoodWrite(<<"I","0","5","0">>) >>,
               << GoodWrite(<<"I","5","0">>), GoodWrite(<<"T","5","0">>) >>,
               << GoodWrite(<<"I","5","0">>), GoodWrite(<<"I","5","0">>) >>,
               << PlannedWrite(GovSheet, <<"I","5","0">>, Num(100), NoObj, FullMeta) >>,
               << PlannedWrite(GovSheet, <<"I","5","0">>, Num(100),
                               SourceWithout({"locator"}), FullMeta) >>,
               << PlannedWrite(GovSheet, <<"I","5","0">>, Num(100), FullSource,
                               MetaWithout({"line_id"})) >> } }

\* a JSON value of the lock file: a string or an object
JStr(v) == [t |-> "str", v |-> v]
JObj(v) == [t |-> "dict", v |-> v]

\* the lock file in the documented format, a lock file with the sha at the
\* top level, and a lock file that is not a JSON object
LockDocumented ==
  [json |-> "dict",
   obj |-> [template |-> JObj([sha256 |-> "sha_tpl"]),
            governing |-> JObj(NoObj),
            write_policy |-> JObj(NoObj)]]

LockFlat == [json |-> "dict", obj |-> [sha256 |-> JStr("sha_tpl")]]

LockNotDict == [json |-> "list", obj |-> NoObj]

LockKeys == << "template_sha256", "template_sha", "sha256", "sha" >>

\* get_lock_sha: the first of the four top-level keys holding a non-empty
\* string; "" is None
get_lock_sha(lk) ==
  LET hits == {i \in 1..Len(LockKeys) :
                 /\ LockKeys[i] \in DOMAIN lk
                 /\ lk[LockKeys[i]].t = "str"
                 /\ lk[LockKeys[i]].v # ""}
  IN  IF hits = {} THEN ""
      ELSE lk[LockKeys[CHOOSE i \in hits : \A j \in hits : i <= j]].v

plan_template_sha(pl) ==
  IF pl.template_sha256 # "" THEN pl.template_sha256 ELSE pl.template_sha

\* A1_RE = ^[A-Z]{1,3}[1-9][0-9]*$
A1_RE(s) ==
  LET nl == LeadCount(s, UpperLetters)
      r == SubSeq(s, nl + 1, Len(s))
  IN  /\ nl \in 1..3
      /\ r # <<>>
      /\ r[1] \in DigitChars \ {"0"}
      /\ AllIn(r, DigitChars)

cell_to_col(cell) == SubSeq(cell, 1, LeadCount(cell, UpperLetters))

FORMULA_COLS == { <<"T">> }

REQUIRED_META_KEYS == {"project", "option", "trade", "bucket_code", "line_id"}

is_valid_write_obj(w) == "scalar" \notin DOMAIN w

\* extract_target: (sheet, cell), or (None, None)
extract_target(w) ==
  IF w.sheet # "" /\ w.cell # <<>> THEN << w.sheet, w.cell >> ELSE << "", <<>> >>

\* write_has_required_source: (has_source, has_complete_source)
write_has_required_source(w) ==
  IF DOMAIN w.source = {} THEN << FALSE, FALSE >>
  ELSE << TRUE, \A k \in {"source_type", "source_path", "locator"} :
                  k \in DOMAIN w.source /\ w.source[k] # "" >>

write_has_required_meta(w) ==
  /\ DOMAIN w.meta # {}
  /\ \A k \in REQUIRED_META_KEYS : k \in DOMAIN w.meta /\ w.meta[k] # ""

\* the counter the per-plan loop increments at writes[i], or "" when the
\* write passes; the writes before it have passed
WriteReject(writes, i) ==
  LET w == writes[i]
  IN  IF ~is_valid_write_obj(w) THEN "bad_write_obj"
      ELSE IF extract_target(w) = << "", <<>> >> THEN "missing_cell_or_sheet"
      ELSE IF ~A1_RE(w.cell) THEN "invalid_cell"
      ELSE IF cell_to_col(w.cell) \in FORMULA_COLS THEN "formula_col_target"
      ELSE IF \E j \in 1..(i - 1) :
                writes[j].sheet = w.sheet /\ writes[j].cell = w.cell
           THEN "dup_cell_in_plan"
      ELSE IF ~write_has_required_source(w)[1] THEN "missing_source"
      ELSE IF ~write_has_required_source(w)[2] THEN "incomplete_source"
      ELSE IF ~write_has_required_meta(w) THEN "missing_meta"
      ELSE ""

\* the counter incremented for the candidate at path p with content f, or
\* "" when the candidate passes
PlanReject(p, f, lock_sha) ==
  IF p[1] = "signatures" THEN "signatures"
  ELSE IF f.json = "bad" THEN "bad_json"
  ELSE IF f.json # "dict" THEN "not_dict"
  ELSE IF f.writes = <<>> THEN "no_writes"
  ELSE IF plan_template_sha(f) = "" THEN "missing_template_sha"
  ELSE IF lock_sha # "" /\ plan_template_sha(f) # lock_sha THEN "sha_mismatch"
  ELSE LET bad == {i \in 1..Len(f.writes) :
                     /\ \A j \in 1..(i - 1) : WriteReject(f.writes, j) = ""
                     /\ WriteReject(f.writes, i) # ""}
       IN  IF bad = {} THEN ""
           ELSE WriteReject(f.writes, CHOOSE i \in bad : TRUE)

Reasons ==
  { "signatures", "bad_json", "not_dict", "no_writes", "missing_template_sha",
    "sha_mismatch", "bad_write_obj", "missing_cell_or_sheet", "invalid_cell",
    "formula_col_target", "dup_cell_in_plan", "missing_source",
    "incomplete_source", "missing_meta", "fixed_plan_hash" }

\* skipped = defaultdict(int)
NoSkipped == [r \in Reasons |-> 0]

Batch == "batch_select_plans"

InitB ==
  /\ entry = Batch
  /\ env = "unset"
  /\ lock = LockA
  /\ tpl = [cells |-> TplCells(None), merged |-> {}]
  /\ plan = [template_sha256 |-> "", plan_hash |-> NoHash, writes |-> <<>>]
  /\ orig_writes = <<>>
  /\ prior = [audit |-> <<>>, out |-> NoFile]
  /\ errs = <<>>
  /\ printed = <<>>
  /\ fatal_msg = NoFatal
  /\ doc = NotLoaded
  /\ audit = <<>>
  /\ out = NoFile
  /\ next_i = 1
  /\ calls = NoCalls
  /\ wc = NoFrame
  /\ disc = NoDisc
  /\ pc = "batch_start"
  /\ exit_code = Running
  /\ \E lk \in {LockDocumented, LockFlat, LockNotDict},
        ax \in SoundPlansB \cup UnsoundPlansB \cup {Absent},
        bx \in SoundPlansB \cup {Absent},
        ay \in SoundPlansB \cup {Absent},
        sx \in {Absent, PlanFile("dict", "sha_tpl", NoHash,
                                 << GoodWrite(<<"I","5","0">>) >>)} :
       LET files == [p \in AllPaths |->
                       IF p = <<"a", "x.json">> THEN ax
                       ELSE IF p = <<"b", "x.json">> THEN bx
                       ELSE IF p = <<"a", "y.json">> THEN ay
                       ELSE IF p = <<"signatures", "x.json">> THEN sx
                       ELSE Absent]
       IN  batch = [lock |-> lk, fs |-> files, fs0 |-> files, lock_sha |-> "",
                    cands |-> <<>>, total |-> 0, ready |-> <<>>,
                    skipped |-> NoSkipped, out_txt |-> <<>>, runs |-> 0]

frame == <<entry, env, plan, lock, tpl, orig_writes, prior, errs, printed,
           fatal_msg, doc, audit, out, next_i, calls, wc, disc>>

\* main up to the loop: the lock is loaded, the candidates are listed
BatchStart ==
  /\ entry = Batch
  /\ pc = "batch_start"
  /\ IF batch.lock.json # "dict"
     THEN /\ pc' = "halted"
          /\ exit_code' = 2
          /\ UNCHANGED batch
     ELSE /\ batch' = [batch EXCEPT
                         !.lock_sha = get_lock_sha(batch.lock.obj),
                         !.cands = SortPaths({p \in AllPaths : batch.fs[p] # Absent}),
                         !.total = Cardinality({p \in AllPaths : batch.fs[p] # Absent}),
                         !.ready = <<>>,
                         !.skipped = NoSkipped,
                         !.runs = @ + 1]
          /\ pc' = "batch_loop"
          /\ UNCHANGED exit_code
  /\ UNCHANGED frame

\* a loop that writes the plan_hash into the candidate's own file
BatchStep_inplace ==
  /\ entry = Batch
  /\ pc = "batch_loop"
  /\ batch.cands # <<>>
  /\ LET p == Head(batch.cands)
         f == batch.fs[p]
         why == PlanReject(p, f, batch.lock_sha)
     IN  IF why # ""
         THEN batch' = [batch EXCEPT !.cands = Tail(@),
                                     !.skipped[why] = @ + 1]
         ELSE IF ~f.plan_hash.present
         THEN batch' = [batch EXCEPT
                          !.cands = Tail(@),
                          !.fs[p] = [f EXCEPT !.plan_hash = sha256_json_raw(f.writes)],
                          !.ready = Append(@, p),
                          !.skipped["fixed_plan_hash"] = @ + 1]
         ELSE batch' = [batch EXCEPT !.cands = Tail(@),
                                     !.ready = Append(@, p)]
  /\ UNCHANGED <<frame, pc, exit_code>>

\* one iteration of the loop over the candidates
BatchStep ==
  /\ entry = Batch
  /\ pc = "batch_loop"
  /\ batch.cands # <<>>
  /\ LET p == Head(batch.cands)
         f == batch.fs[p]
         why == PlanReject(p, f, batch.lock_sha)
         outp == << ReadyDir, p[2] >>
     IN  IF why # ""
         THEN batch' = [batch EXCEPT !.cands = Tail(@),
                                     !.skipped[why] = @ + 1]
         ELSE IF ~f.plan_hash.present
         THEN batch' = [batch EXCEPT
                          !.cands = Tail(@),
                          !.fs[outp] = [f EXCEPT !.plan_hash = sha256_json_raw(f.writes)],
                          !.ready = Append(@, outp),
                          !.skipped["fixed_plan_hash"] = @ + 1]
         ELSE batch' = [batch EXCEPT !.cands = Tail(@),
                                     !.ready = Append(@, p)]
  /\ UNCHANGED <<frame, pc, exit_code>>

\* after the loop: the ready list is written, the counts are printed
BatchFinish ==
  /\ entry = Batch
  /\ pc = "batch_loop"
  /\ batch.cands = <<>>
  /\ batch' = [batch EXCEPT !.out_txt = batch.ready]
  /\ pc' = "batch_done"
  /\ exit_code' = 0
  /\ UNCHANGED frame

\* the operator runs the batch again on the same plans directory
BatchAgain ==
  /\ entry = Batch
  /\ pc = "batch_done"
  /\ batch.runs < MaxRuns
  /\ pc' = "batch_start"
  /\ exit_code' = Running
  /\ UNCHANGED <<frame, batch>>

NextB == BatchStart \/ BatchStep \/ BatchFinish \/ BatchAgain

SpecB == InitB /\ [][NextB]_vars

(***************************************************************************)
(* Claims about Batch Plan Repair.                                         *)
(***************************************************************************)
\* the plans that were in the plans directory before the first run
Originals == {p \in AllPaths : batch.fs0[p] # Absent}

\* the step lists the candidate it handles as ready
ListsCandidate ==
  /\ pc = "batch_loop"
  /\ batch.cands # <<>>
  /\ Len(batch'.ready) = Len(batch.ready) + 1

\* C21: no run of the batch changes the file of an original candidate; a
\* step that lists a candidate with a plan_hash lists its own path and
\* writes no file; a step that lists a candidate without one writes the
\* plan, with its writes and template sha as they were and plan_hash =
\* sha256_json(writes), to the file of the same name in the ready directory,
\* which is another directory than the candidate's, changes no other file,
\* and lists that new path.
C21_OriginalsNeverMutated ==
  /\ [](entry = Batch => \A p \in Originals : batch.fs[p] = batch.fs0[p])
  /\ [][ListsCandidate =>
          LET p == Head(batch.cands)
              f == batch.fs[p]
              listed == batch'.ready[Len(batch'.ready)]
          IN  IF f.plan_hash.present
              THEN listed = p /\ batch'.fs = batch.fs
              ELSE /\ listed = << ReadyDir, p[2] >>
                   /\ listed # p
                   /\ batch'.fs[listed].writes = f.writes
                   /\ batch'.fs[listed].template_sha256 = f.template_sha256
                   /\ batch'.fs[listed].plan_hash = sha256_json_raw(f.writes)
                   /\ \A q \in AllPaths \ {listed} : batch'.fs[q] = batch.fs[q]]_vars

C21_Witness ==
  /\ pc = "batch_done"
  /\ batch.runs = 1
  /\ Len(batch.ready) = 2
  /\ batch.ready[1] = << ReadyDir, "x.json" >>
  /\ batch.ready[2] = << "a", "y.json" >>
  /\ batch.fs[<< ReadyDir, "x.json" >>].plan_hash.present
  /\ ~batch.fs[<< "a", "x.json" >>].plan_hash.present

\* the plan_hash of the plan file f is there and is not the hash of its
\* writes, under either encoding of the writes
Mismatching(f) ==
  /\ f.json = "dict"
  /\ f.plan_hash.present
  /\ f.plan_hash # sha256_json(f.writes)
  /\ f.plan_hash # sha256_json_raw(f.writes)

\* C22 as claimed: Batch Plan Repair never lists as ready a plan whose
\* existing plan_hash is not the hash of its writes, and never rewrites
\* that plan_hash.
C22_MismatchNeverReady ==
  entry = Batch =>
    /\ \A i \in 1..Len(batch.ready) : ~Mismatching(batch.fs[batch.ready[i]])
    /\ \A p \in Originals :
         Mismatching(batch.fs0[p]) => batch.fs[p] = batch.fs0[p]

RECURSIVE SumOver(_, _)
SumOver(cnt, R) ==
  IF R = {} THEN 0
  ELSE LET r == CHOOSE x \in R : TRUE
       IN  cnt[r] + SumOver(cnt, R \ {r})

\* C23 as claimed: when a run of the batch has gone through its candidates,
\* the number of ready entries plus the sum of all the counters it prints
\* equals the number of candidates, and while it runs the sum never exceeds
\* the number of candidates that were not listed as ready.
C23_OneOutcomePerCandidate ==
  (entry = Batch /\ pc \in {"batch_loop", "batch_done"}) =>
    /\ Len(batch.ready) + SumOver(batch.skipped, Reasons) + Len(batch.cands)
         = batch.total
    /\ pc = "batch_done" =>
         Len(batch.ready) + SumOver(batch.skipped, Reasons) = batch.total

(***************************************************************************)
(* sov_write_safe_map.py: Column Safety Discovery.                         *)
(* The sheet is the rows below the CODE header: for each row the kind of   *)
(* its CODE cell and the content of its cells in the columns 1 and 2, and  *)
(* the set of <<row, column>> that lie inside a merged range.              *)
(***************************************************************************)
MaxScanRows == 2

ScanCols == 1..2

BlankRunMax == 25

NonCodeRunMax == 5

RowsS ==
  [code : {"digit", "text", "blank"}, cells : [ScanCols -> {"value", "formula"}]]

is_digit_code(v) == v = "digit"

is_merged_cell(merged, row, col) == << row, col >> \in merged

\* the loop that collects the code rows, from row r on
RECURSIVE CodeRows(_, _, _, _)
CodeRows(rows, r, blank_run, noncode_run) ==
  IF r > Len(rows) THEN <<>>
  ELSE IF rows[r].code = "blank"
  THEN IF blank_run + 1 >= BlankRunMax THEN <<>>
       ELSE CodeRows(rows, r + 1, blank_run + 1, noncode_run)
  ELSE IF is_digit_code(rows[r].code)
  THEN << r >> \o CodeRows(rows, r + 1, 0, 0)
  ELSE IF noncode_run + 1 >= NonCodeRunMax THEN <<>>
       ELSE CodeRows(rows, r + 1, 0, noncode_run + 1)

\* col_stats[c] after the scan of the code rows
ColStats(rows, merged, code_rows, c) ==
  LET rs == {code_rows[k] : k \in 1..Len(code_rows)}
      mg == {r \in rs : is_merged_cell(merged, r, c)}
      fm == {r \in rs \ mg : rows[r].cells[c] = "formula"}
  IN  [merged |-> Cardinality(mg),
       formula |-> Cardinality(fm),
       blank |-> 0,
       value |-> Cardinality(rs \ (mg \cup fm))]

\* a classification that looks at the formula count alone
IsSafe_formula_only(st) == st.formula = 0

IsSafe(st) == st.formula = 0 /\ st.merged = 0

get_column_letter(c) == IF c = 1 THEN <<"A">> ELSE <<"B">>

\* the letters of the columns c..c2 that are safe (want = TRUE) or locked
RECURSIVE ColsWhere(_, _, _, _)
ColsWhere(stats, c, c2, want) ==
  IF c > c2 THEN <<>>
  ELSE (IF IsSafe(stats[c]) = want THEN << get_column_letter(c) >> ELSE <<>>)
         \o ColsWhere(stats, c + 1, c2, want)

Discovery == "sov_write_safe_map"

InitS ==
  /\ entry = Discovery
  /\ env = "unset"
  /\ lock = LockA
  /\ tpl = [cells |-> TplCells(None), merged |-> {}]
  /\ plan = [template_sha256 |-> "", plan_hash |-> NoHash, writes |-> <<>>]
  /\ orig_writes = <<>>
  /\ prior = [audit |-> <<>>, out |-> NoFile]
  /\ errs = <<>>
  /\ printed = <<>>
  /\ fatal_msg = NoFatal
  /\ doc = NotLoaded
  /\ audit = <<>>
  /\ out = NoFile
  /\ next_i = 1
  /\ calls = NoCalls
  /\ wc = NoFrame
  /\ batch = NoBatch
  /\ pc = "disc_rows"
  /\ exit_code = Running
  /\ \E rows \in SeqsUpTo(RowsS, MaxScanRows), c1 \in ScanCols :
       \E mg \in SUBSET ((1..Len(rows)) \X ScanCols) :
         disc = [rows |-> rows, merged |-> mg, c1 |-> c1, c2 |-> 2,
                 code_rows |-> <<>>, col_stats |-> <<>>,
                 safe_cols |-> <<>>, locked_cols |-> <<>>]

frameS == <<entry, env, plan, lock, tpl, orig_writes, prior, errs, printed,
            fatal_msg, doc, audit, out, next_i, calls, wc, batch>>

\* the code rows under the CODE header are collected
DiscCodeRows ==
  /\ entry = Discovery
  /\ pc = "disc_rows"
  /\ disc' = [disc EXCEPT !.code_rows = CodeRows(disc.rows, 1, 0, 0)]
  /\ IF disc'.code_rows = <<>>
     THEN pc' = "halted" /\ exit_code' = 1
     ELSE pc' = "disc_scan" /\ UNCHANGED exit_code
  /\ UNCHANGED frameS

\* the cells of the code rows are counted per column
DiscScan ==
  /\ entry = Discovery
  /\ pc = "disc_scan"
  /\ disc' = [disc EXCEPT
                !.col_stats = [c \in disc.c1..disc.c2 |->
                                 ColStats(disc.rows, disc.merged, disc.code_rows, c)]]
  /\ pc' = "disc_classify"
  /\ UNCHANGED <<frameS, exit_code>>

\* every column of the range is put into safe_cols or locked_cols
DiscClassify ==
  /\ entry = Discovery
  /\ pc = "disc_classify"
  /\ disc' = [disc EXCEPT
                !.safe_cols = ColsWhere(disc.col_stats, disc.c1, disc.c2, TRUE),
                !.locked_cols = ColsWhere(disc.col_stats, disc.c1, disc.c2, FALSE)]
  /\ pc' = "done"
  /\ exit_code' = 0
  /\ UNCHANGED frameS

NextS == DiscCodeRows \/ DiscScan \/ DiscClassify

SpecS == InitS /\ [][NextS]_vars

\* the number of entries of the list s that equal x
CountIn(s, x) == Cardinality({k \in 1..Len(s) : s[k] = x})

\* C24: when Column Safety Discovery is done, every column of the scan
\* range is exactly once in exactly one of the SAFE and LOCKED lists, and it
\* is in the SAFE list iff in every collected code row its cell neither
\* holds a formula nor lies in a merged region; a code-row cell that is
\* merged and holds a formula makes its column LOCKED.
C24_SafeIffNoFormulaNoMerge ==
  (entry = Discovery /\ pc = "done") =>
    /\ Len(disc.safe_cols) + Len(disc.locked_cols) = disc.c2 - disc.c1 + 1
    /\ \A c \in disc.c1..disc.c2 :
         LET l == IF c = 1 THEN <<"A">> ELSE <<"B">>
             clean == \A k \in 1..Len(disc.code_rows) :
                        LET r == disc.code_rows[k]
                        IN  /\ disc.rows[r].cells[c] # "formula"
                            /\ << r, c >> \notin disc.merged
         IN  /\ CountIn(disc.safe_cols, l) + CountIn(disc.locked_cols, l) = 1
             /\ CountIn(disc.safe_cols, l) = 1 <=> clean

C24_Witness ==
  /\ entry = Discovery
  /\ pc = "done"
  /\ disc.c1 = 1
  /\ disc.code_rows = << 2 >>
  /\ disc.rows[2].cells[1] = "formula"
  /\ << 2, 1 >> \in disc.merged
  /\ disc.rows[1].cells[2] = "formula"
  /\ disc.safe_cols = << <<"B">> >>
  /\ disc.locked_cols = << <<"A">> >>

(***************************************************************************)
(* Long plans: the drivers and the validate CLI run on a plan of up to     *)
(* MaxBulk writes to distinct cells J900, J901, ..., each of which breaks  *)
(* the sheet, row and column rules and lacks every source and meta field.  *)
(***************************************************************************)
MaxBulk == 19

Digit(n) == <<"0","1","2","3","4","5","6","7","8","9">>[n + 1]

BulkCell(k) == << "J", "9", Digit(k \div 10), Digit(k % 10) >>

BulkWrite(k) ==
  PlannedWrite("OTHER", BulkCell(k), Num(100),
               SourceWithout(SourceKeySet), MetaWithout(MetaKeySet))

BulkWrites(n) == [k \in 1..n |-> BulkWrite(k)]

InitP ==
  /\ entry \in {Hardened, Deprecated, "sov_write_plan"}
  /\ env \in {"1", "unset"}
  /\ lock = LockA
  /\ tpl = [cells |-> TplCells(None), merged |-> {}]
  /\ \E n \in 1..MaxBulk : orig_writes = BulkWrites(n)
  /\ \E sha \in {"sha_tpl", "sha_other"},
        h \in {NoHash, sha256_json(orig_writes)} :
       plan = [template_sha256 |-> sha, plan_hash |-> h, writes |-> orig_writes]
  /\ prior = [audit |-> <<>>, out |-> NoFile]
  /\ audit = <<>>
  /\ out = NoFile
  /\ errs = <<>>
  /\ printed = <<>>
  /\ fatal_msg = NoFatal
  /\ doc = NotLoaded
  /\ next_i = 1
  /\ calls = NoCalls
  /\ pc = IF entry = Hardened THEN "env_gate"
          ELSE IF entry = Deprecated THEN "load" ELSE "validate"
  /\ exit_code = Running
  /\ wc = NoFrame
  /\ batch = NoBatch
  /\ disc = NoDisc

NextP ==
  \/ EnvGate
  \/ Load
  \/ ShaBinding
  \/ PlanHashCheck
  \/ Preflight
  \/ Validate
  \/ CliValidate
  \/ CliNoGo

SpecP == InitP /\ [][NextP]_vars

\* C25: when validation ends in NO-GO, the violations printed are the
\* complete list that validate_plan returned, whatever its length.
C25_AllViolationsReported ==
  (pc = "halted" /\ exit_code = 2 /\ errs # <<>>) => printed = errs

\* C26: for a write whose cell parses, validate_plan reports a row
\* violation iff the row lies outside [first, last] and is greater than
\* 12; a write at a row <= 12 gets no row violation whatever the span, and
\* is still reported when its column is denied or not allowed.
C26_RowRuleWithHeaderBlock ==
  Validated =>
    \A i \in 1..Len(plan.writes) :
      LET w == plan.writes[i]
          c == coordinate_from_string(w.cell)
          row == c.row
          col == c.col
      IN  (w.cell # <<>> /\ c.ok) =>
            /\ Reported(i - 1, {"ROW"}, NA)
                 <=> ((row < lock.first \/ row > lock.last) /\ row > 12)
            /\ row <= 12 =>
                 /\ Reported(i - 1, {"LOCKED"}, NA) <=> col \in lock.denied
                 /\ Reported(i - 1, {"NOT_ALLOWED"}, NA) <=> col \notin lock.allowed

C26_Witness ==
  /\ Validated
  /\ pc = "halted"
  /\ lock = LockB
  /\ Len(plan.writes) = 2
  /\ plan.writes[1].cell = <<"T","5">>
  /\ plan.writes[2].cell = <<"I","3","0">>
  /\ ~Reported(0, {"ROW"}, NA)
  /\ Reported(0, {"LOCKED"}, NA)
  /\ Reported(0, {"NOT_ALLOWED"}, NA)
  /\ Reported(1, {"ROW"}, NA)

\* C27: the plan_hash that Batch Plan Repair backfills is the hash the
\* Apply Driver recomputes for the same writes list, also when the writes
\* hold non-ASCII strings: every plan file the batch wrote into the ready
\* directory passes the driver's plan_hash comparison.
C27_BackfilledHashIsDriverHash ==
  \A n \in Names :
    LET f == batch.fs[<< ReadyDir, n >>]
    IN  (entry = Batch /\ f # Absent) => f.plan_hash = sha256_json(f.writes)

DocumentedSha(lk) ==
  IF lk.json = "dict" /\ "template" \in DOMAIN lk.obj /\ lk.obj["template"].t = "dict"
  THEN lk.obj["template"].v.sha256
  ELSE ""

\* C29: when the lock is in the documented format, with the sha under
\* template.sha256, the batch never lists as ready a plan whose template
\* sha differs from the lock's.
C29_ShaMismatchNeverReady ==
  (entry = Batch /\ DocumentedSha(batch.lock) # "") =>
    \A i \in 1..Len(batch.ready) :
      plan_template_sha(batch.fs[batch.ready[i]]) = DocumentedSha(batch.lock)

\* C30: the batch is stable under re-running on the same plans directory:
\* no file of the ready directory is a candidate, the entries of the ready
\* list are distinct, and the list has at most one entry per original plan.
C30_StableUnderRerun ==
  entry = Batch =>
    /\ \A k \in 1..Len(batch.cands) : batch.cands[k][1] # ReadyDir
    /\ \A i, j \in 1..Len(batch.ready) : i # j => batch.ready[i] # batch.ready[j]
    /\ Len(batch.ready) <= Cardinality(Originals)

====
